---- MODULE Spec2Model ----
(***************************************************************************)
(* State-machine model of TimelineController                               *)
(* (src/src/controller/timeline-controller.js): the handlers of the hls.js *)
(* events the controller registers for, the callbacks it hands to the      *)
(* WebVTT parser and to the CEA-608 decoder, and its pure helpers.         *)
(*                                                                         *)
(* Every handler runs to completion (single-threaded event bus), so each   *)
(* handler is one action.  Variables whose name starts with an underscore  *)
(* or that are named as in the source are fields of the controller; the    *)
(* others record what the controller's collaborators were asked to do.     *)
(***************************************************************************)
EXTENDS FiniteSets, Integers, Sequences, TLC

VARIABLES
    enableCEA708Captions,  \* hls.config.enableCEA708Captions (fixed at construction)
    enableWebVTT,          \* hls.config.enableWebVTT
    _enabled,              \* this._enabled
    _media,                \* this._media: FALSE = undefined, TRUE = the media element
    mediaTextTracks,       \* media.textTracks: the element's TextTrack objects, by handle 1..n
    _textTracks,           \* this._textTracks: array of track handles
    textTrack1,            \* this.textTrack1: handle, or NoTrack
    textTrack2,            \* this.textTrack2
    _unparsedVttFrags,     \* this._unparsedVttFrags: array of FRAG_LOADED data
    _initPTS,              \* this._initPTS: Undefined or a timestamp
    _cueRanges,            \* this._cueRanges: array of <<start, end>>
    _lastSn,               \* this._lastSn
    _prevCC,               \* this._prevCC
    _vttCCs,               \* this._vttCCs: discontinuity id -> entry
    manifest,              \* "none" | "loading" | "loaded" | "reloading": see Streaming
    parsing,               \* WebVTTParser.parse calls whose callback has not fired yet
    parseCalls,            \* fragment ids in the order they were handed to WebVTTParser.parse
    resetCalls,            \* cea608Parser.reset() calls since the last MANIFEST_LOADING
    mainSns,               \* sn of the main fragments since the last MANIFEST_LOADING
    nFrags,                \* subtitle fragments delivered so far (their ids are 1..nFrags)
    triggered,             \* SUBTITLE_FRAG_PROCESSED events triggered by the last handler
    newCueCalls,           \* this._Cues.newCue calls made by the last handler
    addDataCalls,          \* cea608Parser.addData calls made by the last handler
    lastEvent              \* the handler that ran last, with its arguments

vars == <<enableCEA708Captions, enableWebVTT, _enabled, _media, mediaTextTracks,
          _textTracks, textTrack1, textTrack2, _unparsedVttFrags, _initPTS,
          _cueRanges, _lastSn, _prevCC, _vttCCs, manifest, parsing, parseCalls,
          resetCalls, mainSns, nFrags, triggered, newCueCalls, addDataCalls,
          lastEvent>>

----------------------------------------------------------------------------
(* Values *)

\* JavaScript undefined in a numeric field (_initPTS, _lastSn, _prevCC, data.initPTS)
Undefined == -1000

\* a falsy track reference (undefined / null)
NoTrack == 0

\* the object literal {ccOffset: 0, presentationOffset: 0}: no discontinuity entry
EmptyVttCCs == [c \in {} |-> c]

----------------------------------------------------------------------------
(* Bounds and input domains *)

MaxFrags == 2        \* subtitle fragments delivered in one run
MaxMainFrags == 3    \* main fragments between two MANIFEST_LOADING events
MaxTracks == 2       \* TextTrack objects the media element may hold

PTSInputs == {Undefined, 0, 9}          \* data.initPTS of INIT_PTS_FOUND
CCs == {0}                              \* frag.cc
FragStart(id) == 10 * id                \* frag.start: fragments start at increasing times
TrackIds == {0}                         \* frag.trackId
ByteLengths == {0, 7}                   \* payload.byteLength
MainSns == {5, 6, 7, 8}                 \* frag.sn of main fragments
CueIds == {"a", "b"}                    \* cue.id of cues the WebVTT parser returns
CueLists == {<<>>, <<"a">>, <<"b">>, <<"a", "b">>, <<"a", "a">>}
SubtitleLists == {<<>>, <<"en">>, <<"fr">>}   \* names of data.subtitles
CueTimes == {0, 8, 9, 10, 11, 20}       \* startTime and endTime of caption cues
SpliceCCs == {0, 1}                     \* frag.cc of a stream with a splice

\* the three bytes of a caption triplet: marker, byte1, byte2
Triplets == {<<252, 148, 32>>,   \* valid, type 0
             <<4, 65, 66>>,      \* valid, type 0, no reserved bits
             <<253, 148, 32>>,   \* valid, type 1
             <<248, 148, 32>>,   \* not valid, type 0
             <<252, 128, 128>>,  \* valid, type 0, both bytes zero under the mask
             <<252, 0, 193>>}    \* valid, type 0, one byte zero

\* samples[i].bytes: a count byte, one more byte and up to two triplets
SampleBytes ==
    {<<b0, 255>> \o t1 \o t2 : b0 \in {0, 1, 2, 3, 226}, t1 \in Triplets \cup {<<>>},
                               t2 \in Triplets \cup {<<>>, <<252, 65>>}}

----------------------------------------------------------------------------
(* Pure helpers *)

Min(a, b) == IF a <= b THEN a ELSE b

Max(a, b) == IF a >= b THEN a ELSE b

\* a TextTrackCueList without cues.  The list is kept in cue order by the
\* browser, not in insertion order, so track.cues is the number of cues per id.
NoCues == [id \in CueIds |-> 0]

\* a TextTrack of the media element
NewTrack(label, isTrack1, isTrack2) ==
    [textTrack1 |-> isTrack1, textTrack2 |-> isTrack2, label |-> label, cues |-> NoCues]

\* clearCurrentCues(track), on the track list: remove every cue of the track
clearCurrentCues(tracks, track) ==
    IF track # NoTrack /\ track <= Len(tracks)
    THEN [tracks EXCEPT ![track].cues = NoCues]
    ELSE tracks

\* reuseVttTextTrack(inUseTrack, manifestTrack), for an inUseTrack that exists
reuseVttTextTrack(inUseTrack, name) ==
    inUseTrack.label = name /\ ~(inUseTrack.textTrack1 \/ inUseTrack.textTrack2)

intersection(x1, x2, y1, y2) == Min(x2, y2) - Max(x1, y1)

\* a plausible slip: >= 0.5, which drops a candidate overlapped by exactly half
AtLeastHalf(overlap, duration) ==
    IF duration > 0 THEN 2 * overlap >= duration
    ELSE IF duration = 0 THEN overlap > 0
    ELSE 2 * overlap <= duration

\* (overlap / (endTime - startTime)) > 0.5 in floating point, on integer times:
\* a zero duration gives NaN (overlap 0) or Infinity, a negative one flips the sign
OverHalf(overlap, duration) ==
    IF duration > 0 THEN 2 * overlap > duration
    ELSE IF duration = 0 THEN overlap > 0
    ELSE 2 * overlap < duration

RECURSIVE ScanCueRangesNoReturn(_, _, _, _, _)
\* a plausible slip: the drop is noted but the loop goes on merging lower ranges
ScanCueRangesNoReturn(ranges, i, startTime, endTime, merged) ==
    IF i = 0
    THEN [ranges |-> IF merged THEN ranges ELSE Append(ranges, <<startTime, endTime>>),
          forward |-> TRUE]
    ELSE LET cueRange == ranges[i]
             overlap == Min(cueRange[2], endTime) - Max(cueRange[1], startTime)
             extended == [ranges EXCEPT ![i] = <<Min(cueRange[1], startTime),
                                                 Max(cueRange[2], endTime)>>]
         IN  IF overlap >= 0
             THEN IF 2 * overlap > endTime - startTime
                  THEN [ranges |-> ScanCueRangesNoReturn(extended, i - 1, startTime,
                                                         endTime, TRUE).ranges,
                        forward |-> FALSE]
                  ELSE ScanCueRangesNoReturn(extended, i - 1, startTime, endTime, TRUE)
             ELSE ScanCueRangesNoReturn(ranges, i - 1, startTime, endTime, merged)

RECURSIVE ScanCueRangesDropUnextended(_, _, _, _, _)
\* a plausible slip: the ratio tested, and the candidate dropped, before the
\* range is extended
ScanCueRangesDropUnextended(ranges, i, startTime, endTime, merged) ==
    IF i = 0
    THEN [ranges |-> IF merged THEN ranges ELSE Append(ranges, <<startTime, endTime>>),
          forward |-> TRUE]
    ELSE LET cueRange == ranges[i]
             overlap == Min(cueRange[2], endTime) - Max(cueRange[1], startTime)
             extended == [ranges EXCEPT ![i] = <<Min(cueRange[1], startTime),
                                                 Max(cueRange[2], endTime)>>]
         IN  IF overlap >= 0
             THEN IF 2 * overlap > endTime - startTime
                  THEN [ranges |-> ranges, forward |-> FALSE]
                  ELSE ScanCueRangesDropUnextended(extended, i - 1, startTime, endTime, TRUE)
             ELSE ScanCueRangesDropUnextended(ranges, i - 1, startTime, endTime, merged)

RECURSIVE ScanCueRangesTouchingApart(_, _, _, _, _)
\* a plausible slip: overlap > 0, so that a range the candidate only touches is
\* not merged
ScanCueRangesTouchingApart(ranges, i, startTime, endTime, merged) ==
    IF i = 0
    THEN [ranges |-> IF merged THEN ranges ELSE Append(ranges, <<startTime, endTime>>),
          forward |-> TRUE]
    ELSE LET cueRange == ranges[i]
             overlap == Min(cueRange[2], endTime) - Max(cueRange[1], startTime)
             extended == [ranges EXCEPT ![i] = <<Min(cueRange[1], startTime),
                                                 Max(cueRange[2], endTime)>>]
         IN  IF overlap > 0
             THEN IF 2 * overlap > endTime - startTime
                  THEN [ranges |-> extended, forward |-> FALSE]
                  ELSE ScanCueRangesTouchingApart(extended, i - 1, startTime, endTime, TRUE)
             ELSE ScanCueRangesTouchingApart(ranges, i - 1, startTime, endTime, merged)

RECURSIVE ScanCueRanges(_, _, _, _, _)
\* the loop of addCues from index i-1 downwards (i counts down to 0), then the
\* push; forward tells whether this._Cues.newCue is reached
ScanCueRanges(ranges, i, startTime, endTime, merged) ==
    IF i = 0
    THEN [ranges |-> IF merged THEN ranges ELSE Append(ranges, <<startTime, endTime>>),
          forward |-> TRUE]
    ELSE LET cueRange == ranges[i]
             overlap == intersection(cueRange[1], cueRange[2], startTime, endTime)
             extended == [ranges EXCEPT ![i] = <<Min(cueRange[1], startTime),
                                                 Max(cueRange[2], endTime)>>]
         IN  IF overlap >= 0
             THEN IF OverHalf(overlap, endTime - startTime)
                  THEN [ranges |-> extended, forward |-> FALSE]
                  ELSE ScanCueRanges(extended, i - 1, startTime, endTime, TRUE)
             ELSE ScanCueRanges(ranges, i - 1, startTime, endTime, merged)

\* a plausible slip: one store per channel, of which only channel 1's is consulted
addCuesOwnChannel(channel, ranges, startTime, endTime) ==
    IF channel = "textTrack1"
    THEN ScanCueRanges(ranges, Len(ranges), startTime, endTime, FALSE)
    ELSE [ranges |-> Append(ranges, <<startTime, endTime>>), forward |-> TRUE]

\* addCues(channel, startTime, endTime, screen) on this._cueRanges: channel only
\* names the track handed to this._Cues.newCue
addCues(channel, ranges, startTime, endTime) ==
    ScanCueRanges(ranges, Len(ranges), startTime, endTime, FALSE)

\* a plausible slip: the lookup never finds the cue (a lookup by another key)
getCueByIdNeverFound(cues, id) == FALSE

\* track.cues.getCueById(id): is there a cue of that id
getCueById(cues, id) == cues[id] > 0

\* track.addCue(cue)
addCue(cues, id) == [cues EXCEPT ![id] = @ + 1]

RECURSIVE AddParsedCues(_, _)
\* cues.forEach of the parse-success callback: addCue unless the id is present
AddParsedCues(trackCues, cues) ==
    IF cues = <<>> THEN trackCues
    ELSE AddParsedCues(IF ~getCueById(trackCues, Head(cues))
                       THEN addCue(trackCues, Head(cues))
                       ELSE trackCues,
                       Tail(cues))

RECURSIVE BitAnd(_, _)
\* the & operator on non-negative integers
BitAnd(a, b) ==
    IF a = 0 \/ b = 0 THEN 0
    ELSE (a % 2) * (b % 2) + 2 * BitAnd(a \div 2, b \div 2)

\* mask & byteArray[position]; a read past the end is undefined, and x & undefined is 0
MaskedByte(mask, byteArray, position) ==
    IF position < Len(byteArray) THEN BitAnd(mask, byteArray[position + 1]) ELSE 0

\* a plausible slip: field 2 kept as well (ccType === 0 || ccType === 1)
TripletKeptBothFields(byteArray, position) ==
    LET ccbyte1 == IF position + 1 < Len(byteArray) THEN byteArray[position + 2] % 128 ELSE 0
        ccbyte2 == IF position + 2 < Len(byteArray) THEN byteArray[position + 3] % 128 ELSE 0
        marker  == IF position < Len(byteArray) THEN byteArray[position + 1] ELSE 0
    IN  ~(ccbyte1 = 0 /\ ccbyte2 = 0) /\ (marker \div 4) % 2 = 1 /\ marker % 4 \in {0, 1}

\* does the triplet at position (marker, byte1, byte2) add its pair to actualCCBytes
TripletKept(byteArray, position) ==
    LET ccbyte1 == MaskedByte(127, byteArray, position + 1)
        ccbyte2 == MaskedByte(127, byteArray, position + 2)
        ccValid == MaskedByte(4, byteArray, position) # 0
        ccType  == MaskedByte(3, byteArray, position)
    IN  ~(ccbyte1 = 0 /\ ccbyte2 = 0) /\ ccValid /\ ccType = 0

RECURSIVE ExtractLoop(_, _, _, _, _)
\* the for loop of _extractCea608Data from triplet j on
ExtractLoop(byteArray, count, j, position, actualCCBytes) ==
    IF j >= count THEN actualCCBytes
    ELSE ExtractLoop(byteArray, count, j + 1, position + 3,
                     IF TripletKept(byteArray, position)
                     THEN actualCCBytes \o <<MaskedByte(127, byteArray, position + 1),
                                             MaskedByte(127, byteArray, position + 2)>>
                     ELSE actualCCBytes)

\* _extractCea608Data(byteArray)
_extractCea608Data(byteArray) ==
    ExtractLoop(byteArray, MaskedByte(31, byteArray, 0), 0, 2, <<>>)

----------------------------------------------------------------------------
(* onFragLoaded and onInitPtsFound, as functions of the fields they touch.   *)
(* onInitPtsFound calls onFragLoaded for every queued fragment, so both work *)
(* on a record of the fields: lastSn, resetCalls, mainSns, initPTS, queue,   *)
(* vttCCs, prevCC, parsing, parseCalls, triggered.                           *)

This ==
    [parsing |-> parsing, parseCalls |-> parseCalls, resetCalls |-> resetCalls,
     mainSns |-> mainSns, triggered |-> <<>>, lastSn |-> _lastSn,
     initPTS |-> _initPTS, queue |-> _unparsedVttFrags, vttCCs |-> _vttCCs,
     prevCC |-> _prevCC]

\* a plausible slip: only a gap counts, a repeated or earlier sn does not
NotContiguousGapOnly(sn, lastSn) == sn > lastSn + 1

\* sn !== this._lastSn + 1
NotContiguous(sn, lastSn) == sn # lastSn + 1

\* a plausible slip: if (!this._initPTS) in onFragLoaded, which takes the timestamp 0
\* for unset
InitPTSUndefinedFalsy(initPTS) == initPTS = Undefined \/ initPTS = 0

\* typeof this._initPTS === 'undefined', in onFragLoaded
InitPTSUndefined(initPTS) == initPTS = Undefined

\* a plausible slip: if (!this._initPTS), which takes the timestamp 0 for unset
NoInitPTSYetFalsy(initPTS) == initPTS = Undefined \/ initPTS = 0

\* typeof this._initPTS === 'undefined', in onInitPtsFound
NoInitPTSYet(initPTS) == initPTS = Undefined

\* the main-fragment branch of onFragLoaded
MainFragLoaded(st, frag) ==
    [st EXCEPT !.resetCalls = IF NotContiguous(frag.sn, st.lastSn) /\ enableCEA708Captions
                              THEN @ + 1 ELSE @,
               !.lastSn = frag.sn,
               !.mainSns = Append(@, frag.sn)]

\* a plausible slip: the entry written without the test if (!vttCCs[frag.cc])
RebaseCCEveryFragment(st, frag) ==
    [st EXCEPT !.vttCCs = [c \in DOMAIN st.vttCCs \cup {frag.cc} |->
                              IF c = frag.cc
                              THEN [prevCC |-> st.prevCC, start |-> frag.start, new |-> TRUE]
                              ELSE st.vttCCs[c]],
               !.prevCC = frag.cc]

\* a plausible slip: this._prevCC = frag.cc left out
RebaseCCPrevCCKept(st, frag) ==
    IF frag.cc \notin DOMAIN st.vttCCs
    THEN [st EXCEPT !.vttCCs = [c \in DOMAIN st.vttCCs \cup {frag.cc} |->
                                   IF c = frag.cc
                                   THEN [prevCC |-> st.prevCC, start |-> frag.start, new |-> TRUE]
                                   ELSE st.vttCCs[c]]]
    ELSE st

\* the continuity-map step of onFragLoaded: if (!vttCCs[frag.cc]) {...}
RebaseCC(st, frag) ==
    IF frag.cc \notin DOMAIN st.vttCCs
    THEN [st EXCEPT !.vttCCs = [c \in DOMAIN st.vttCCs \cup {frag.cc} |->
                                   IF c = frag.cc
                                   THEN [prevCC |-> st.prevCC, start |-> frag.start, new |-> TRUE]
                                   ELSE st.vttCCs[c]],
                    !.prevCC = frag.cc]
    ELSE st

\* WebVTTParser.parse(payload, this._initPTS, vttCCs, frag.cc, success, error): the
\* call is recorded with what its callbacks close over (textTracks, frag)
StartParse(st, frag) ==
    [st EXCEPT !.parsing = @ \cup {[frag |-> frag, ticket |-> Len(st.parseCalls) + 1,
                                    textTracks |-> _textTracks]},
               !.parseCalls = Append(@, frag.id)]

\* hls.trigger(Event.SUBTITLE_FRAG_PROCESSED, {success, frag})
Trigger(st, success, frag) ==
    [st EXCEPT !.triggered = Append(@, [frag |-> frag.id, success |-> success])]

\* a plausible slip: the timestamp is tested before the payload, so that an
\* empty fragment is queued
SubtitleFragLoadedGateFirst(st, data) ==
    IF st.initPTS = Undefined
    THEN [st EXCEPT !.queue = Append(@, data)]
    ELSE IF data.byteLength # 0
    THEN StartParse(RebaseCC(st, data.frag), data.frag)
    ELSE Trigger(st, FALSE, data.frag)

\* a plausible slip: the continuity-map step done before the timestamp test
SubtitleFragLoadedRebaseFirst(st, data) ==
    IF data.byteLength # 0
    THEN IF st.initPTS = Undefined
         THEN [RebaseCC(st, data.frag) EXCEPT !.queue = Append(@, data)]
         ELSE StartParse(RebaseCC(st, data.frag), data.frag)
    ELSE Trigger(st, FALSE, data.frag)

\* the subtitle branch of onFragLoaded
SubtitleFragLoaded(st, data) ==
    IF data.byteLength # 0
    THEN IF InitPTSUndefined(st.initPTS)
         THEN [st EXCEPT !.queue = Append(@, data)]
         ELSE StartParse(RebaseCC(st, data.frag), data.frag)
    ELSE Trigger(st, FALSE, data.frag)

\* onFragLoaded(data)
onFragLoaded(st, data) ==
    IF data.frag.type = "main" THEN MainFragLoaded(st, data.frag)
    ELSE IF data.frag.type = "subtitle" THEN SubtitleFragLoaded(st, data)
    ELSE st

RECURSIVE ForEachFragLoadedLastFirst(_, _)
\* a plausible slip: the queue replayed from its end (popped as a stack)
ForEachFragLoadedLastFirst(st, frags) ==
    IF frags = <<>> THEN st
    ELSE ForEachFragLoadedLastFirst(onFragLoaded(st, frags[Len(frags)]),
                                    SubSeq(frags, 1, Len(frags) - 1))

RECURSIVE ForEachFragLoaded(_, _)
\* this._unparsedVttFrags.forEach(frag => this.onFragLoaded(frag)): forEach visits
\* the elements the array held when it started, not those pushed meanwhile
ForEachFragLoaded(st, frags) ==
    IF frags = <<>> THEN st
    ELSE ForEachFragLoaded(onFragLoaded(st, Head(frags)), Tail(frags))

\* onInitPtsFound(data)
onInitPtsFound(st, initPTS) ==
    LET set == IF NoInitPTSYet(st.initPTS) THEN [st EXCEPT !.initPTS = initPTS] ELSE st
    IN  IF Len(set.queue) # 0
        THEN [ForEachFragLoaded(set, set.queue) EXCEPT !.queue = <<>>]
        ELSE set

\* write the fields of st back
Becomes(st) ==
    /\ _lastSn' = st.lastSn
    /\ resetCalls' = st.resetCalls
    /\ mainSns' = st.mainSns
    /\ _initPTS' = st.initPTS
    /\ _unparsedVttFrags' = st.queue
    /\ _vttCCs' = st.vttCCs
    /\ _prevCC' = st.prevCC
    /\ parsing' = st.parsing
    /\ parseCalls' = st.parseCalls
    /\ triggered' = st.triggered

----------------------------------------------------------------------------
(* Track creation and lookup *)

\* config.captionsTextTrack1Label / captionsTextTrack2Label
CaptionsLabel(channelNumber) == IF channelNumber = 1 THEN "cc1" ELSE "cc2"

\* a captions track that an earlier controller left on the media element: it is
\* flagged textTrack<n> and still holds a cue
LeftoverTrack(channelNumber) ==
    [NewTrack(CaptionsLabel(channelNumber), channelNumber = 1, channelNumber = 2)
        EXCEPT !.cues = [NoCues EXCEPT !["a"] = 1]]

\* media.textTracks of the element handed to onMediaAttaching, as it is when the
\* controller is constructed: a new element, or one with leftover captions tracks
ElementTracks == {<<>>, <<LeftoverTrack(1)>>, <<LeftoverTrack(1), LeftoverTrack(2)>>}

\* getExistingTrack(channelNumber): the first track of the media flagged textTrack<n>
getExistingTrack(tracks, channelNumber) ==
    LET flagged == {i \in 1..Len(tracks) :
                      IF channelNumber = 1 THEN tracks[i].textTrack1 ELSE tracks[i].textTrack2}
    IN  IF _media /\ flagged # {}
        THEN CHOOSE i \in flagged : \A k \in flagged : i <= k
        ELSE NoTrack

RECURSIVE BindTextTracks(_, _, _, _)
\* this._tracks.forEach((track, index) => ...) of onManifestLoaded, from index on
\* (index counts from 1); inUseTracks is the live media.textTracks.  Without a
\* media createTextTrack returns undefined and textTrack.mode = ... throws, which
\* ends the handler with the tracks bound so far.
BindTextTracks(subtitles, index, tracks, bound) ==
    IF index > Len(subtitles) THEN [tracks |-> tracks, textTracks |-> bound]
    ELSE IF _media /\ index <= Len(tracks) /\ reuseVttTextTrack(tracks[index], subtitles[index])
    THEN BindTextTracks(subtitles, index + 1, tracks, Append(bound, index))
    ELSE IF _media
    THEN BindTextTracks(subtitles, index + 1,
                        Append(tracks, NewTrack(subtitles[index], FALSE, FALSE)),
                        Append(bound, Len(tracks) + 1))
    ELSE [tracks |-> tracks, textTracks |-> bound]

\* this._textTrack1 and this._textTrack2, which onMediaDetaching reads: no code
\* assigns them (the captions tracks are this.textTrack1 and this.textTrack2)
_textTrack1 == NoTrack

_textTrack2 == NoTrack

----------------------------------------------------------------------------
(* The handlers *)

\* the state the constructor leaves, for a given hls.config and a given media
\* element (which the controller does not see before onMediaAttaching)
Constructed(cea708, webVTT, elementTracks) ==
    /\ enableCEA708Captions = cea708
    /\ enableWebVTT = webVTT
    /\ _enabled = TRUE
    /\ _media = FALSE
    /\ mediaTextTracks = elementTracks
    /\ _textTracks = <<>>
    /\ textTrack1 = NoTrack
    /\ textTrack2 = NoTrack
    /\ _unparsedVttFrags = <<>>
    /\ _initPTS = Undefined
    /\ _cueRanges = <<>>
    /\ _lastSn = Undefined
    /\ _prevCC = Undefined
    /\ _vttCCs = EmptyVttCCs
    /\ manifest = "none"
    /\ parsing = {}
    /\ parseCalls = <<>>
    /\ resetCalls = 0
    /\ mainSns = <<>>
    /\ nFrags = 0
    /\ triggered = <<>>
    /\ newCueCalls = <<>>
    /\ addDataCalls = <<>>
    /\ lastEvent = [type |-> "constructor"]

Init == \E cea708 \in BOOLEAN, webVTT \in BOOLEAN : Constructed(cea708, webVTT, <<>>)

Config == <<enableCEA708Captions, enableWebVTT>>

FragFields == <<_lastSn, resetCalls, mainSns, _initPTS, _unparsedVttFrags, _vttCCs,
                _prevCC, parsing, parseCalls>>

\* The event bus delivers MANIFEST_LOADING first (hls.loadSource), MANIFEST_LOADED
\* after it, and the events of fragments, timestamps, levels and captions once a
\* manifest has been loaded; those of the previous source may still arrive while
\* the next manifest is loading ("reloading").
Streaming == manifest \in {"loaded", "reloading"}

\* onMediaAttaching(data)
MediaAttaching ==
    /\ _media' = TRUE
    /\ lastEvent' = [type |-> "MEDIA_ATTACHING"]
    /\ triggered' = <<>> /\ newCueCalls' = <<>> /\ addDataCalls' = <<>>
    /\ UNCHANGED <<Config, FragFields, _enabled, mediaTextTracks, _textTracks, textTrack1,
                   textTrack2, _cueRanges, manifest, nFrags>>

\* onMediaDetaching()
MediaDetaching ==
    /\ _media
    /\ mediaTextTracks' = clearCurrentCues(clearCurrentCues(mediaTextTracks, _textTrack1),
                                           _textTrack2)
    /\ lastEvent' = [type |-> "MEDIA_DETACHING"]
    /\ triggered' = <<>> /\ newCueCalls' = <<>> /\ addDataCalls' = <<>>
    /\ UNCHANGED <<Config, FragFields, _enabled, _media, _textTracks, textTrack1,
                   textTrack2, _cueRanges, manifest, nFrags>>

\* onManifestLoading()
ManifestLoading ==
    /\ _lastSn' = -1
    /\ _prevCC' = -1
    /\ _vttCCs' = EmptyVttCCs
    /\ mediaTextTracks' = IF _media
                          THEN [i \in 1..Len(mediaTextTracks) |->
                                  [mediaTextTracks[i] EXCEPT !.cues = NoCues]]
                          ELSE mediaTextTracks
    /\ manifest' = IF Streaming THEN "reloading" ELSE "loading"
    /\ resetCalls' = 0
    /\ mainSns' = <<>>
    /\ lastEvent' = [type |-> "MANIFEST_LOADING"]
    /\ triggered' = <<>> /\ newCueCalls' = <<>> /\ addDataCalls' = <<>>
    /\ UNCHANGED <<Config, _enabled, _media, _textTracks, textTrack1, textTrack2,
                   _unparsedVttFrags, _initPTS, _cueRanges, parsing, parseCalls, nFrags>>

\* this._unparsedVttFrags = this._unparsedVttFrags || [] in onManifestLoaded
KeptUnparsedVttFrags(queue) == queue

\* onManifestLoaded(data), data.subtitles = subtitles
ManifestLoaded(subtitles) ==
    LET bind == IF enableWebVTT
                THEN BindTextTracks(subtitles, 1, mediaTextTracks, <<>>)
                ELSE [tracks |-> mediaTextTracks, textTracks |-> <<>>]
    IN  /\ manifest \in {"loading", "reloading"}
        /\ Len(bind.tracks) <= MaxTracks
        /\ _textTracks' = bind.textTracks
        /\ mediaTextTracks' = bind.tracks
        /\ _unparsedVttFrags' = KeptUnparsedVttFrags(_unparsedVttFrags)
        /\ _initPTS' = Undefined
        /\ _cueRanges' = <<>>
        /\ manifest' = "loaded"
        /\ lastEvent' = [type |-> "MANIFEST_LOADED", subtitles |-> subtitles]
        /\ triggered' = <<>> /\ newCueCalls' = <<>> /\ addDataCalls' = <<>>
        /\ UNCHANGED <<Config, _enabled, _media, textTrack1, textTrack2, _lastSn, _prevCC,
                       _vttCCs, parsing, parseCalls, resetCalls, mainSns, nFrags>>

\* onLevelSwitching(), with this._hls.currentLevel.closedCaptions = closedCaptions
LevelSwitching(closedCaptions) ==
    /\ Streaming
    /\ _enabled' = (closedCaptions # "NONE")
    /\ lastEvent' = [type |-> "LEVEL_SWITCHING", closedCaptions |-> closedCaptions]
    /\ triggered' = <<>> /\ newCueCalls' = <<>> /\ addDataCalls' = <<>>
    /\ UNCHANGED <<Config, FragFields, _media, mediaTextTracks, _textTracks, textTrack1,
                   textTrack2, _cueRanges, manifest, nFrags>>

\* FRAG_LOADED data of the three kinds of fragment
MainData(sn) == [frag |-> [sn |-> sn, type |-> "main"], byteLength |-> 7]

SubtitleData(id, cc, start, trackId, byteLength) ==
    [frag |-> [id |-> id, cc |-> cc, start |-> start, type |-> "subtitle",
               trackId |-> trackId],
     byteLength |-> byteLength]

AudioData == [frag |-> [type |-> "audio"], byteLength |-> 7]

\* onFragLoaded(data), delivered by the event bus
FragLoaded(data) ==
    /\ Streaming
    /\ data.frag.type = "main" => Len(mainSns) < MaxMainFrags
    /\ data.frag.type = "subtitle" => nFrags < MaxFrags /\ data.frag.id = nFrags + 1
    /\ nFrags' = IF data.frag.type = "subtitle" THEN nFrags + 1 ELSE nFrags
    /\ Becomes(onFragLoaded(This, data))
    /\ lastEvent' = [data |-> data, type |-> "FRAG_LOADED"]
    /\ newCueCalls' = <<>> /\ addDataCalls' = <<>>
    /\ UNCHANGED <<Config, _enabled, _media, mediaTextTracks, _textTracks, textTrack1,
                   textTrack2, _cueRanges, manifest>>

\* onInitPtsFound(data), data.initPTS = initPTS
InitPtsFound(initPTS) ==
    /\ Streaming
    /\ Becomes(onInitPtsFound(This, initPTS))
    /\ lastEvent' = [initPTS |-> initPTS, type |-> "INIT_PTS_FOUND",
                     queued |-> Len(_unparsedVttFrags)]
    /\ newCueCalls' = <<>> /\ addDataCalls' = <<>>
    /\ UNCHANGED <<Config, _enabled, _media, mediaTextTracks, _textTracks, textTrack1,
                   textTrack2, _cueRanges, manifest, nFrags>>

\* textTracks[frag.trackId] in the callback: the array the parse call closed over
CurrentTrack(p) ==
    IF p.frag.trackId < Len(p.textTracks) THEN p.textTracks[p.frag.trackId + 1] ELSE NoTrack

\* the success callback of WebVTTParser.parse, called with cues.  With no
\* current track, currentTrack.cues throws on the first cue and nothing is triggered.
ParseSuccess(p, cues) ==
    LET currentTrack == CurrentTrack(p)
        throws == currentTrack = NoTrack /\ cues # <<>>
    IN  /\ p \in parsing
        /\ parsing' = parsing \ {p}
        /\ mediaTextTracks' =
              IF currentTrack = NoTrack THEN mediaTextTracks
              ELSE [mediaTextTracks EXCEPT ![currentTrack].cues = AddParsedCues(@, cues)]
        /\ triggered' = IF throws THEN <<>> ELSE <<[frag |-> p.frag.id, success |-> TRUE]>>
        /\ lastEvent' = [cues |-> cues, track |-> currentTrack, frag |-> p.frag,
                         type |-> "parseSuccess",
                         before |-> IF currentTrack = NoTrack THEN NoCues
                                    ELSE mediaTextTracks[currentTrack].cues]
        /\ newCueCalls' = <<>> /\ addDataCalls' = <<>>
        /\ UNCHANGED <<Config, _enabled, _media, _textTracks, textTrack1, textTrack2,
                       _unparsedVttFrags, _initPTS, _cueRanges, _lastSn, _prevCC, _vttCCs,
                       manifest, parseCalls, resetCalls, mainSns, nFrags>>

\* the error callback of WebVTTParser.parse
ParseError(p) ==
    /\ p \in parsing
    /\ parsing' = parsing \ {p}
    /\ triggered' = <<[frag |-> p.frag.id, success |-> FALSE]>>
    /\ lastEvent' = [frag |-> p.frag, type |-> "parseError"]
    /\ newCueCalls' = <<>> /\ addDataCalls' = <<>>
    /\ UNCHANGED <<Config, _enabled, _media, mediaTextTracks, _textTracks, textTrack1,
                   textTrack2, _unparsedVttFrags, _initPTS, _cueRanges, _lastSn, _prevCC,
                   _vttCCs, manifest, parseCalls, resetCalls, mainSns, nFrags>>

\* onFragParsingUserdata(data), data.samples = samples
FragParsingUserdata(samples) ==
    /\ Streaming
    /\ addDataCalls' = IF _enabled /\ enableCEA708Captions
                       THEN [i \in 1..Len(samples) |->
                               [pts |-> samples[i].pts,
                                ccdatas |-> _extractCea608Data(samples[i].bytes)]]
                       ELSE <<>>
    /\ lastEvent' = [type |-> "FRAG_PARSING_USERDATA", samples |-> samples]
    /\ triggered' = <<>> /\ newCueCalls' = <<>>
    /\ UNCHANGED <<Config, FragFields, _enabled, _media, mediaTextTracks, _textTracks,
                   textTrack1, textTrack2, _cueRanges, manifest, nFrags>>

\* channel1.newCue / channel2.newCue, called by the CEA-608 decoder (which exists
\* when enableCEA708Captions is set), followed by the addCues it calls.  When
\* the handler takes over a track that the element already holds, it clears the
\* track and calls sendAddTrackEvent(self.textTrack<n>, self.media); the
\* controller has no field media (the element is this._media), so
\* media.dispatchEvent throws a TypeError and addCues is not reached: the event
\* is then "newCueThrew".  The event records the store as it was and, when the
\* handler before was a newCue that found the store empty (so that the store is
\* the one range it appended), that cue's channel.
ChannelNewCue(channelNumber, startTime, endTime) ==
    LET current == IF channelNumber = 1 THEN textTrack1 ELSE textTrack2
        existing == getExistingTrack(mediaTextTracks, channelNumber)
        tracks == IF current # NoTrack THEN mediaTextTracks
                  ELSE IF existing # NoTrack THEN clearCurrentCues(mediaTextTracks, existing)
                  ELSE IF _media
                  THEN Append(mediaTextTracks,
                              NewTrack(CaptionsLabel(channelNumber),
                                       channelNumber = 1, channelNumber = 2))
                  ELSE mediaTextTracks
        track == IF current # NoTrack THEN current
                 ELSE IF existing # NoTrack THEN existing
                 ELSE IF _media THEN Len(mediaTextTracks) + 1
                 ELSE NoTrack
        threw == current = NoTrack /\ existing # NoTrack
        added == addCues(IF channelNumber = 1 THEN "textTrack1" ELSE "textTrack2",
                         _cueRanges, startTime, endTime)
    IN  /\ enableCEA708Captions
        /\ Streaming
        /\ Len(tracks) <= MaxTracks
        /\ mediaTextTracks' = tracks
        /\ textTrack1' = IF channelNumber = 1 THEN track ELSE textTrack1
        /\ textTrack2' = IF channelNumber = 2 THEN track ELSE textTrack2
        /\ _cueRanges' = IF threw THEN _cueRanges ELSE added.ranges
        /\ newCueCalls' = IF ~threw /\ added.forward
                          THEN <<[track |-> track, startTime |-> startTime,
                                  endTime |-> endTime]>>
                          ELSE <<>>
        /\ lastEvent' = [ranges |-> _cueRanges,
                         startTime |-> startTime, endTime |-> endTime,
                         channel |-> channelNumber,
                         type |-> IF threw THEN "newCueThrew" ELSE "newCue",
                         createdBy |-> IF lastEvent.type = "newCue" /\ lastEvent.ranges = <<>>
                                       THEN lastEvent.channel ELSE 0]
        /\ triggered' = <<>> /\ addDataCalls' = <<>>
        /\ UNCHANGED <<Config, FragFields, _enabled, _media, _textTracks, manifest, nFrags>>

----------------------------------------------------------------------------
(* Spec: the subtitle path (PTS gate, continuity map, parse callbacks, text   *)
(* tracks) with the manifest and media events, for a controller built with    *)
(* the default enableCEA708Captions.                                          *)

Next ==
    \/ MediaAttaching
    \/ MediaDetaching
    \/ ManifestLoading
    \/ \E subtitles \in SubtitleLists : ManifestLoaded(subtitles)
    \/ \E cc \in CCs, trackId \in TrackIds, byteLength \in ByteLengths :
          FragLoaded(SubtitleData(nFrags + 1, cc, FragStart(nFrags + 1), trackId, byteLength))
    \/ \E initPTS \in PTSInputs : InitPtsFound(initPTS)
    \/ \E p \in parsing, cues \in CueLists : ParseSuccess(p, cues)
    \/ \E p \in parsing : ParseError(p)

InitSubtitles == \E webVTT \in BOOLEAN : Constructed(TRUE, webVTT, <<>>)

Spec == InitSubtitles /\ [][Next]_vars

----------------------------------------------------------------------------
(* SpecSn: the discontinuity sequencer: main (and audio) fragments between    *)
(* manifest loads, with and without the caption decoder.                      *)

NextSn ==
    \/ ManifestLoading
    \/ ManifestLoaded(<<>>)
    \/ \E sn \in MainSns : FragLoaded(MainData(sn))
    \/ FragLoaded(AudioData)

SpecSn == Init /\ [][NextSn]_vars

----------------------------------------------------------------------------
(* SpecCues: the overlap resolver: cues of both caption channels over the     *)
(* times of CueTimes, with the events that reset the store or create tracks.  *)

NextCues ==
    \/ MediaAttaching
    \/ ManifestLoading
    \/ ManifestLoaded(<<>>)
    \/ \E channelNumber \in {1, 2}, startTime \in CueTimes, endTime \in CueTimes :
          startTime < endTime /\ ChannelNewCue(channelNumber, startTime, endTime)

InitCaptions == \E cea708 \in BOOLEAN : Constructed(cea708, TRUE, <<>>)

InitCues ==
    \E cea708 \in BOOLEAN, elementTracks \in ElementTracks :
        Constructed(cea708, TRUE, elementTracks)

SpecCues == InitCues /\ [][NextCues]_vars

----------------------------------------------------------------------------
(* SpecCea: the byte-pair demultiplexer: caption user data samples, with the  *)
(* level switches that enable and disable captions.                           *)

NextCea ==
    \/ ManifestLoading
    \/ ManifestLoaded(<<>>)
    \/ \E closedCaptions \in {"NONE", "CC1"} : LevelSwitching(closedCaptions)
    \/ \E bytes \in SampleBytes : FragParsingUserdata(<<[pts |-> 0, bytes |-> bytes]>>)

SpecCea == InitCaptions /\ [][NextCea]_vars

----------------------------------------------------------------------------
(* SpecCC: the continuity map: non-empty subtitle fragments of two            *)
(* discontinuity ids, queued or processed, across manifest loads.             *)

NextCC ==
    \/ ManifestLoading
    \/ ManifestLoaded(<<>>)
    \/ \E cc \in SpliceCCs :
          FragLoaded(SubtitleData(nFrags + 1, cc, FragStart(nFrags + 1), 0, 7))
    \/ \E initPTS \in {Undefined, 0} : InitPtsFound(initPTS)
    \/ \E p \in parsing : ParseError(p)

SpecCC == InitSubtitles /\ [][NextCC]_vars

----------------------------------------------------------------------------
(* Properties *)

\* the ids of the fragments of a queue of FRAG_LOADED data, in queue order
FragIdsOf(queue) == [i \in 1..Len(queue) |-> queue[i].frag.id]

\* the last handler was onFragLoaded for a subtitle fragment
SubtitleFragLoadedLast(event) ==
    event.type = "FRAG_LOADED" /\ event.data.frag.type = "subtitle"

\* C1 (PTS gate FIFO replay).  A step of onInitPtsFound that takes _initPTS from
\* undefined to a timestamp hands the parser exactly the queued fragments, in
\* queue (arrival) order, and empties the queue; no other step hands the parser
\* a queued fragment, and none is handed while _initPTS stays undefined; a
\* non-empty subtitle fragment arriving when _initPTS is set is handed to the
\* parser by its own onFragLoaded step and the queue is left alone; no fragment
\* is handed to the parser twice, and none is both queued and handed.
C1_HandedOnce ==
    /\ \A i, j \in 1..Len(parseCalls) : parseCalls[i] = parseCalls[j] => i = j
    /\ \A i \in 1..Len(_unparsedVttFrags), j \in 1..Len(parseCalls) :
          _unparsedVttFrags[i].frag.id # parseCalls[j]

C1_Step ==
    /\ (lastEvent'.type = "INIT_PTS_FOUND" /\ _initPTS = Undefined /\ _initPTS' # Undefined)
          => /\ parseCalls' = parseCalls \o FragIdsOf(_unparsedVttFrags)
             /\ _unparsedVttFrags' = <<>>
    /\ (SubtitleFragLoadedLast(lastEvent') /\ lastEvent'.data.byteLength # 0)
          => IF _initPTS = Undefined
             THEN /\ _unparsedVttFrags' = Append(_unparsedVttFrags, lastEvent'.data)
                  /\ parseCalls' = parseCalls
             ELSE /\ parseCalls' = Append(parseCalls, lastEvent'.data.frag.id)
                  /\ _unparsedVttFrags' = _unparsedVttFrags
    /\ parseCalls' # parseCalls
          => /\ _initPTS' # Undefined
             /\ \/ lastEvent'.type = "INIT_PTS_FOUND" /\ _initPTS = Undefined
                \/ SubtitleFragLoadedLast(lastEvent') /\ _initPTS # Undefined

C1_FifoReplay == [](C1_HandedOnce) /\ [][C1_Step]_vars

\* two fragments were queued, and the timestamp's arrival replayed them in order
C1_Witness ==
    /\ lastEvent.type = "INIT_PTS_FOUND"
    /\ lastEvent.queued = 2
    /\ _initPTS # Undefined
    /\ parseCalls = <<1, 2>>
    /\ _unparsedVttFrags = <<>>

\* C2 (reset on manifest load).  Right after onManifestLoaded (which follows
\* onManifestLoading) the cue range store is empty, the continuity map holds no
\* discontinuity entry, _initPTS is undefined and the pending queue is empty.
C2_ManifestLoadResets ==
    lastEvent.type = "MANIFEST_LOADED"
        => /\ _cueRanges = <<>>
           /\ DOMAIN _vttCCs = {}
           /\ _initPTS = Undefined
           /\ _unparsedVttFrags = <<>>

\* C3 (media detaching is a hard reset).  Right after onMediaDetaching the
\* pending queue, the continuity map and the cue range store are empty and no
\* reference timestamp is left.
C3_DetachResets ==
    lastEvent.type = "MEDIA_DETACHING"
        => /\ _unparsedVttFrags = <<>>
           /\ DOMAIN _vttCCs = {}
           /\ _cueRanges = <<>>
           /\ _initPTS = Undefined

\* sn of the main fragment before the i-th since MANIFEST_LOADING (-1 before the first)
PrevSn(sns, i) == IF i = 1 THEN -1 ELSE sns[i - 1]

\* how many main fragments of sns do not follow their predecessor directly
Discontiguities(sns) == Cardinality({i \in 1..Len(sns) : sns[i] # PrevSn(sns, i) + 1})

\* C4 (discontinuity sequencer).  With the caption decoder present, after
\* onManifestLoading the decoder's reset() has been called once for each main
\* fragment whose sn is not the previous main fragment's sn plus one (the
\* sentinel -1 before the first), _lastSn is the sn of the last main fragment,
\* and for the sequence 5, 6, 8 the number of reset() calls is 2.
C4_Sequencer ==
    (enableCEA708Captions /\ manifest # "none")
        => /\ resetCalls = Discontiguities(mainSns)
           /\ _lastSn = PrevSn(mainSns, Len(mainSns) + 1)
           /\ mainSns = <<5, 6, 8>> => resetCalls = 2

\* the main fragments 5, 6, 8 were loaded after a manifest load, with a decoder
C4_Witness ==
    /\ enableCEA708Captions
    /\ mainSns = <<5, 6, 8>>
    /\ resetCalls = 2
    /\ _lastSn = 8

\* min(range.end, candidate.end) - max(range.start, candidate.start), for the
\* candidate of a newCue event
CandidateOverlap(range, event) ==
    (IF range[2] < event.endTime THEN range[2] ELSE event.endTime)
    - (IF range[1] > event.startTime THEN range[1] ELSE event.startTime)

\* the smallest interval holding the range and the candidate
Hull(range, event) ==
    <<IF range[1] < event.startTime THEN range[1] ELSE event.startTime,
      IF range[2] > event.endTime THEN range[2] ELSE event.endTime>>

\* the ranges of the store, as it was before the event, that overlap the
\* candidate by more than half of the candidate's duration
MajorityOverlaps(event) ==
    {i \in 1..Len(event.ranges) :
        2 * CandidateOverlap(event.ranges[i], event) > event.endTime - event.startTime}

\* C5 (overlap drop).  When some range overlaps the candidate by more than half
\* of its duration, then with k the last-added such range (the first the scan
\* meets): the cue handler is not called, no range is appended, range k is the
\* hull of itself and the candidate, and every range below k is as it was.
C5_OverlapDrop ==
    (lastEvent.type = "newCue" /\ MajorityOverlaps(lastEvent) # {})
        => LET k == CHOOSE i \in MajorityOverlaps(lastEvent) :
                        \A j \in MajorityOverlaps(lastEvent) : j <= i
           IN  /\ newCueCalls = <<>>
               /\ Len(_cueRanges) = Len(lastEvent.ranges)
               /\ _cueRanges[k] = Hull(lastEvent.ranges[k], lastEvent)
               /\ \A i \in 1..(k - 1) : _cueRanges[i] = lastEvent.ranges[i]

\* a candidate was dropped at a range above another range that it also overlaps,
\* and that lower range was not extended
C5_Witness ==
    /\ lastEvent.type = "newCue"
    /\ newCueCalls = <<>>
    /\ \E k \in MajorityOverlaps(lastEvent), i \in 1..Len(lastEvent.ranges) :
          /\ i < k
          /\ CandidateOverlap(lastEvent.ranges[i], lastEvent) >= 0
          /\ Hull(lastEvent.ranges[i], lastEvent) # lastEvent.ranges[i]
          /\ _cueRanges[i] = lastEvent.ranges[i]

\* C6 (strict threshold).  A candidate that no range overlaps by strictly more
\* than half of its duration is forwarded to the cue handler, with its track and
\* times; an overlap of exactly half is such a case.
C6_StrictThreshold ==
    (lastEvent.type = "newCue" /\ MajorityOverlaps(lastEvent) = {})
        => newCueCalls = <<[track |-> IF lastEvent.channel = 1 THEN textTrack1 ELSE textTrack2,
                            startTime |-> lastEvent.startTime,
                            endTime |-> lastEvent.endTime]>>

\* a candidate that a range overlapped by exactly half of its duration was forwarded
C6_Witness ==
    /\ lastEvent.type = "newCue"
    /\ newCueCalls # <<>>
    /\ \E i \in 1..Len(lastEvent.ranges) :
          2 * CandidateOverlap(lastEvent.ranges[i], lastEvent)
              = lastEvent.endTime - lastEvent.startTime

\* the byte at an offset of a sample; past the end it reads as 0 under a mask
ByteAt(bytes, offset) == IF offset < Len(bytes) THEN bytes[offset + 1] ELSE 0

\* the j-th triplet (from 0) of a sample: its marker and its two masked bytes
Marker(bytes, j) == ByteAt(bytes, 2 + 3 * j)

MaskedPair(bytes, j) == <<ByteAt(bytes, 3 + 3 * j) % 128, ByteAt(bytes, 4 + 3 * j) % 128>>

\* marker has bit 0x04 set and type (marker & 0x03) 0, and the pair is not 0, 0
Field1Pair(bytes, j) ==
    /\ (Marker(bytes, j) \div 4) % 2 = 1
    /\ Marker(bytes, j) % 4 = 0
    /\ MaskedPair(bytes, j) # <<0, 0>>

RECURSIVE PairsFrom(_, _)
\* the pairs of the triplets j, j+1, ... below the count (byte0 & 0x1F) that are
\* line-21 field-1 pairs, in triplet order
PairsFrom(bytes, j) ==
    IF j >= ByteAt(bytes, 0) % 32 THEN <<>>
    ELSE (IF Field1Pair(bytes, j) THEN MaskedPair(bytes, j) ELSE <<>>) \o PairsFrom(bytes, j + 1)

\* C7 (byte-pair demultiplexing).  What onFragParsingUserdata hands the decoder
\* for a sample is, in triplet order, exactly the masked pairs of the first
\* byte0 & 0x1F triplets (from offset 2) whose marker has the valid bit set and
\* type 0 and whose masked bytes are not both zero.
C7_Demultiplexing ==
    (lastEvent.type = "FRAG_PARSING_USERDATA" /\ _enabled /\ enableCEA708Captions)
        => addDataCalls = [i \in 1..Len(lastEvent.samples) |->
                             [pts |-> lastEvent.samples[i].pts,
                              ccdatas |-> PairsFrom(lastEvent.samples[i].bytes, 0)]]

\* a sample of two triplets, the second of type 1, gave the first one's pair only
C7_Witness ==
    /\ lastEvent.type = "FRAG_PARSING_USERDATA"
    /\ lastEvent.samples[1].bytes = <<226, 255, 252, 148, 32, 253, 148, 32>>
    /\ addDataCalls = <<[pts |-> 0, ccdatas |-> <<20, 32>>]>>

\* the ids of a list of cues
IdsOf(cues) == {cues[i] : i \in 1..Len(cues)}

\* C8 (cue deduplication).  No text track holds two cues of the same id; a
\* parse-success callback leaves in its track the cues that were there plus one
\* cue for each delivered id that was not there: a delivered id already present
\* changes nothing, so the ids of a track are the union of the ids delivered to
\* it, whatever the order of the callbacks.
C8_Deduplication ==
    /\ \A t \in 1..Len(mediaTextTracks), id \in CueIds : mediaTextTracks[t].cues[id] <= 1
    /\ (lastEvent.type = "parseSuccess" /\ lastEvent.track # NoTrack)
          => \A id \in CueIds :
                mediaTextTracks[lastEvent.track].cues[id] =
                    IF lastEvent.before[id] > 0 THEN lastEvent.before[id]
                    ELSE IF id \in IdsOf(lastEvent.cues) THEN 1 ELSE 0

\* a callback delivered a cue that an earlier callback had put in the track,
\* together with a new one
C8_Witness ==
    /\ lastEvent.type = "parseSuccess"
    /\ lastEvent.track # NoTrack
    /\ \E id \in IdsOf(lastEvent.cues) : lastEvent.before[id] = 1
    /\ \E id \in IdsOf(lastEvent.cues) : lastEvent.before[id] = 0

\* the fragments whose parse is under way
ParsingIds == {p.frag.id : p \in parsing}

\* C9 (subtitle fragment outcomes).  An empty payload triggers
\* SUBTITLE_FRAG_PROCESSED with success=false and the fragment is neither handed
\* to the parser nor queued; a parse failure triggers success=false and changes
\* no track; success=true is triggered only by a parse-success callback, with
\* every delivered id in the track by then; and an outcome leaves _initPTS, the
\* queue and the other parses under way as they were, so later fragments are
\* processed as before.
C9_State ==
    /\ (SubtitleFragLoadedLast(lastEvent) /\ lastEvent.data.byteLength = 0)
          => /\ triggered = <<[frag |-> lastEvent.data.frag.id, success |-> FALSE]>>
             /\ \A i \in 1..Len(parseCalls) : parseCalls[i] # lastEvent.data.frag.id
             /\ \A i \in 1..Len(_unparsedVttFrags) :
                   _unparsedVttFrags[i].frag.id # lastEvent.data.frag.id
             /\ lastEvent.data.frag.id \notin ParsingIds
    /\ lastEvent.type = "parseError"
          => triggered = <<[frag |-> lastEvent.frag.id, success |-> FALSE]>>
    /\ (lastEvent.type = "parseSuccess" /\ lastEvent.track # NoTrack)
          => triggered = <<[frag |-> lastEvent.frag.id, success |-> TRUE]>>
    /\ \A i \in 1..Len(triggered) :
          triggered[i].success
              => /\ lastEvent.type = "parseSuccess"
                 /\ triggered[i].frag = lastEvent.frag.id
                 /\ \A id \in IdsOf(lastEvent.cues) :
                       mediaTextTracks[lastEvent.track].cues[id] >= 1

C9_Step ==
    /\ lastEvent'.type = "parseError" => mediaTextTracks' = mediaTextTracks
    /\ lastEvent'.type \in {"parseError", "parseSuccess"}
          => /\ _initPTS' = _initPTS
             /\ _unparsedVttFrags' = _unparsedVttFrags
             /\ parseCalls' = parseCalls
             /\ parsing' = {p \in parsing : p.frag.id # lastEvent'.frag.id}
    /\ (SubtitleFragLoadedLast(lastEvent') /\ lastEvent'.data.byteLength = 0)
          => /\ _initPTS' = _initPTS
             /\ _unparsedVttFrags' = _unparsedVttFrags
             /\ parseCalls' = parseCalls
             /\ parsing' = parsing

C9_Outcomes == [](C9_State) /\ [][C9_Step]_vars

\* a successful parse put a new cue in the track and reported success, while
\* another fragment's parse was still under way
C9_Witness ==
    /\ lastEvent.type = "parseSuccess"
    /\ lastEvent.track # NoTrack
    /\ triggered = <<[frag |-> lastEvent.frag.id, success |-> TRUE]>>
    /\ \E id \in IdsOf(lastEvent.cues) : lastEvent.before[id] = 0
    /\ parsing # {}

\* C10 (first writer wins).  Once _initPTS holds a timestamp, an INIT_PTS_FOUND
\* event leaves it as it is, whatever it carries; only onManifestLoaded, which
\* starts the next manifest, changes it (to undefined).
C10_Step ==
    _initPTS # Undefined
        => /\ lastEvent'.type = "INIT_PTS_FOUND" => _initPTS' = _initPTS
           /\ _initPTS' # _initPTS => lastEvent'.type = "MANIFEST_LOADED" /\ _initPTS' = Undefined

C10_FirstWriterWins == [][C10_Step]_vars

\* a second INIT_PTS_FOUND carried another timestamp and the first one stayed
C10_Witness ==
    /\ lastEvent.type = "INIT_PTS_FOUND"
    /\ lastEvent.initPTS = 9
    /\ _initPTS = 0

\* C11 (parked, not discarded).  A handler other than those of the manifest load
\* leaves every queued subtitle fragment either in the queue or handed to the
\* parser, whatever an INIT_PTS_FOUND event carries.
C11_Step ==
    lastEvent'.type \notin {"MANIFEST_LOADING", "MANIFEST_LOADED"}
        => \A i \in 1..Len(_unparsedVttFrags) :
              \/ \E j \in 1..Len(_unparsedVttFrags') :
                    _unparsedVttFrags'[j] = _unparsedVttFrags[i]
              \/ \E j \in 1..Len(parseCalls') :
                    parseCalls'[j] = _unparsedVttFrags[i].frag.id

C11_ParkedNotDiscarded == [][C11_Step]_vars

\* the ranges of the store, as it was before the event, whose overlap with the
\* candidate is >= 0 (a range that only touches the candidate is one)
TouchingOverlaps(event) ==
    {i \in 1..Len(event.ranges) : CandidateOverlap(event.ranges[i], event) >= 0}

\* the cue handler was called with the candidate of the event
Forwarded(event, calls) ==
    /\ Len(calls) = 1
    /\ calls[1].startTime = event.startTime
    /\ calls[1].endTime = event.endTime

\* C12 (merge or append).  When no range makes addCues drop the candidate, the
\* candidate is forwarded to the cue handler, every range whose overlap with it
\* is >= 0 is the hull of what it was and the candidate, and the candidate is
\* appended as a new range exactly when there was no such range.  [0,10] and
\* then [8,20] submitted to an empty store leave the one range [0,20], both
\* forwarded.
C12_MergeOrAppend ==
    /\ (lastEvent.type = "newCue" /\ MajorityOverlaps(lastEvent) = {})
          => /\ Forwarded(lastEvent, newCueCalls)
             /\ \A i \in TouchingOverlaps(lastEvent) :
                   _cueRanges[i] = Hull(lastEvent.ranges[i], lastEvent)
             /\ IF TouchingOverlaps(lastEvent) = {}
                THEN _cueRanges = Append(lastEvent.ranges,
                                         <<lastEvent.startTime, lastEvent.endTime>>)
                ELSE Len(_cueRanges) = Len(lastEvent.ranges)
    /\ (lastEvent.type = "newCue" /\ lastEvent.ranges = <<>>
           /\ lastEvent.startTime = 0 /\ lastEvent.endTime = 10)
          => _cueRanges = <<<<0, 10>>>> /\ Forwarded(lastEvent, newCueCalls)
    /\ (lastEvent.type = "newCue" /\ lastEvent.ranges = <<<<0, 10>>>>
           /\ lastEvent.startTime = 8 /\ lastEvent.endTime = 20)
          => _cueRanges = <<<<0, 20>>>> /\ Forwarded(lastEvent, newCueCalls)

\* [8,20] was submitted to the store holding [0,10] and merged into [0,20]
C12_Witness ==
    /\ lastEvent.type = "newCue"
    /\ lastEvent.ranges = <<<<0, 10>>>>
    /\ lastEvent.startTime = 8 /\ lastEvent.endTime = 20
    /\ _cueRanges = <<<<0, 20>>>>
    /\ newCueCalls # <<>>

\* C13 (deferred means no downstream effect).  onFragLoaded for a non-empty
\* subtitle fragment while _initPTS is undefined appends the fragment to the
\* queue and does nothing else: the continuity map, _prevCC, _lastSn, the cue
\* range store and the text tracks are as before, the parser is not called and
\* no SUBTITLE_FRAG_PROCESSED is triggered.
C13_Step ==
    (SubtitleFragLoadedLast(lastEvent') /\ lastEvent'.data.byteLength # 0
       /\ _initPTS = Undefined)
        => /\ _unparsedVttFrags' = Append(_unparsedVttFrags, lastEvent'.data)
           /\ _vttCCs' = _vttCCs
           /\ _prevCC' = _prevCC
           /\ _lastSn' = _lastSn
           /\ _cueRanges' = _cueRanges
           /\ mediaTextTracks' = mediaTextTracks
           /\ _textTracks' = _textTracks
           /\ _initPTS' = _initPTS
           /\ parseCalls' = parseCalls
           /\ parsing' = parsing
           /\ triggered' = <<>>

C13_DeferredFrame == [][C13_Step]_vars

\* a fragment whose discontinuity id the map does not hold was deferred, and
\* the map still does not hold it
C13_Witness ==
    /\ SubtitleFragLoadedLast(lastEvent)
    /\ lastEvent.data.byteLength # 0
    /\ _initPTS = Undefined
    /\ _unparsedVttFrags # <<>>
    /\ _unparsedVttFrags[Len(_unparsedVttFrags)] = lastEvent.data
    /\ lastEvent.data.frag.cc \notin DOMAIN _vttCCs
    /\ lastEvent.data.frag.id \notin ParsingIds

\* C14 (no re-buffering).  Whenever _initPTS holds a timestamp the pending
\* queue is empty, and a handler that starts with _initPTS set enqueues no
\* fragment.
C14_Step == _initPTS # Undefined => _unparsedVttFrags' = <<>>

C14_NoRebuffering ==
    [](_initPTS # Undefined => _unparsedVttFrags = <<>>) /\ [][C14_Step]_vars

\* a non-empty subtitle fragment arrived with the timestamp 0 set and went to
\* the parser, not to the queue
C14_Witness ==
    /\ SubtitleFragLoadedLast(lastEvent)
    /\ lastEvent.data.byteLength # 0
    /\ _initPTS = 0
    /\ _unparsedVttFrags = <<>>
    /\ parseCalls # <<>>
    /\ parseCalls[Len(parseCalls)] = lastEvent.data.frag.id

\* the subtitle fragments a step hands to the parser, in the order it does: the
\* fragment of FRAG_LOADED when _initPTS is set, the queue when INIT_PTS_FOUND
\* leaves a timestamp set
ProcessedByStep ==
    IF SubtitleFragLoadedLast(lastEvent') /\ lastEvent'.data.byteLength # 0
          /\ _initPTS # Undefined
    THEN <<lastEvent'.data.frag>>
    ELSE IF lastEvent'.type = "INIT_PTS_FOUND" /\ _initPTS' # Undefined
    THEN [i \in 1..Len(_unparsedVttFrags) |-> _unparsedVttFrags[i].frag]
    ELSE <<>>

\* the positions of frags whose fragment is the first, of frags, with its
\* discontinuity id, the id having no entry in map
FirstOfUnseenCC(frags, map) ==
    {k \in 1..Len(frags) : /\ frags[k].cc \notin DOMAIN map
                           /\ \A j \in 1..(k - 1) : frags[j].cc # frags[k].cc}

\* _prevCC when the fragment at position k of frags is processed: the id of the
\* last entry inserted before it, prevCC if frags inserted none
PrevCCAt(frags, map, prevCC, k) ==
    LET earlier == {j \in FirstOfUnseenCC(frags, map) : j < k}
    IN  IF earlier = {} THEN prevCC
        ELSE frags[CHOOSE j \in earlier : \A i \in earlier : i <= j].cc

\* C15 (continuity map entries).  In a step other than onManifestLoading: the
\* first processed fragment of a discontinuity id without entry inserts
\* {start: its start, prevCC: _prevCC at that moment, new: true} and _prevCC
\* becomes that id; entries that exist keep their start and prevCC, whatever
\* fragments of their id are processed; no entry is removed.
C15_Step ==
    LET frags == ProcessedByStep
        inserting == FirstOfUnseenCC(frags, _vttCCs)
    IN  lastEvent'.type # "MANIFEST_LOADING"
            => /\ DOMAIN _vttCCs' = DOMAIN _vttCCs \cup {frags[k].cc : k \in inserting}
               /\ \A k \in inserting :
                     _vttCCs'[frags[k].cc] =
                         [prevCC |-> PrevCCAt(frags, _vttCCs, _prevCC, k),
                          start |-> frags[k].start,
                          new |-> TRUE]
               /\ _prevCC' = PrevCCAt(frags, _vttCCs, _prevCC, Len(frags) + 1)
               /\ \A cc \in DOMAIN _vttCCs :
                     /\ _vttCCs'[cc].start = _vttCCs[cc].start
                     /\ _vttCCs'[cc].prevCC = _vttCCs[cc].prevCC

C15_MapEntries == [][C15_Step]_vars

\* two queued fragments, of discontinuity ids 1 and 0, were processed when the
\* timestamp arrived: each inserted its entry, the second after the first
C15_Witness ==
    /\ lastEvent.type = "INIT_PTS_FOUND"
    /\ lastEvent.queued = 2
    /\ parseCalls = <<1, 2>>
    /\ _vttCCs = (1 :> [prevCC |-> -1, start |-> FragStart(1), new |-> TRUE]
                  @@ 0 :> [prevCC |-> 1, start |-> FragStart(2), new |-> TRUE])
    /\ _prevCC = 0

\* C16 (stored ranges do not overlap).  After addCues has returned, no two
\* ranges of the store share an interval of positive length.
C16_RangesDisjoint ==
    \A i, j \in 1..Len(_cueRanges) :
        i < j => intersection(_cueRanges[i][1], _cueRanges[i][2],
                              _cueRanges[j][1], _cueRanges[j][2]) <= 0

\* C17 (one store for all channels).  What addCues decides and what it makes of
\* the store follow from the store and the candidate's times alone, whichever
\* channel the cue is of: the candidate is dropped exactly when a range overlaps
\* it by more than half; the ranges from the last such range upwards (all
\* ranges when there is none) whose overlap is >= 0 become their hull with the
\* candidate, the others stay, and the candidate is appended when no overlap is
\* >= 0.  A channel-2 candidate overlapping by more than half the range that a
\* channel-1 cue created is dropped, and it is not forwarded either when the
\* channel-2 handler throws before it reaches addCues.
C17_OneStore ==
    /\ (lastEvent.type = "newCueThrew" /\ lastEvent.channel = 2 /\ lastEvent.createdBy = 1
           /\ MajorityOverlaps(lastEvent) # {})
          => newCueCalls = <<>>
    /\ lastEvent.type = "newCue"
        => LET drop == MajorityOverlaps(lastEvent)
               k == IF drop = {} THEN 0 ELSE CHOOSE i \in drop : \A j \in drop : j <= i
           IN  /\ newCueCalls = <<>> <=> drop # {}
               /\ \A i \in 1..Len(lastEvent.ranges) :
                     _cueRanges[i] = IF i >= k /\ i \in TouchingOverlaps(lastEvent)
                                     THEN Hull(lastEvent.ranges[i], lastEvent)
                                     ELSE lastEvent.ranges[i]
               /\ IF TouchingOverlaps(lastEvent) = {}
                  THEN _cueRanges = Append(lastEvent.ranges,
                                           <<lastEvent.startTime, lastEvent.endTime>>)
                  ELSE Len(_cueRanges) = Len(lastEvent.ranges)
               /\ (lastEvent.channel = 2 /\ lastEvent.createdBy = 1 /\ drop # {})
                     => newCueCalls = <<>> /\ Len(_cueRanges) = 1

\* a channel-2 cue came right after the channel-1 cue that created the store's
\* only range, overlapped it by more than half and was dropped
C17_Witness ==
    /\ lastEvent.type = "newCue"
    /\ lastEvent.channel = 2
    /\ lastEvent.createdBy = 1
    /\ Len(lastEvent.ranges) = 1
    /\ MajorityOverlaps(lastEvent) = {1}
    /\ newCueCalls = <<>>

\* the interval inner lies within the interval outer
Within(inner, outer) == outer[1] <= inner[1] /\ inner[2] <= outer[2]

\* C18 (coverage is never lost).  A handler other than onManifestLoaded, which
\* empties the store, removes no range and shrinks none, and after a cue is
\* submitted to addCues, forwarded or dropped, some range holds its interval:
\* so every candidate submitted since the store was emptied lies within a range.
C18_Step ==
    /\ lastEvent'.type # "MANIFEST_LOADED"
          => /\ Len(_cueRanges') >= Len(_cueRanges)
             /\ \A i \in 1..Len(_cueRanges) : Within(_cueRanges[i], _cueRanges'[i])
    /\ lastEvent'.type = "newCue"
          => \E i \in 1..Len(_cueRanges') :
                Within(<<lastEvent'.startTime, lastEvent'.endTime>>, _cueRanges'[i])

C18_CoverageKept == [][C18_Step]_vars

\* a candidate that no range held was dropped, and the range that made it drop
\* holds it now
C18_Witness ==
    /\ lastEvent.type = "newCue"
    /\ newCueCalls = <<>>
    /\ \A i \in 1..Len(lastEvent.ranges) :
          ~Within(<<lastEvent.startTime, lastEvent.endTime>>, lastEvent.ranges[i])
    /\ \E i \in 1..Len(_cueRanges) :
          Within(<<lastEvent.startTime, lastEvent.endTime>>, _cueRanges[i])

RECURSIVE ReachesSentinel(_, _, _)
\* following prevCC from the id cc ends at -1, through entries of map only and
\* through none of visited again
ReachesSentinel(map, cc, visited) ==
    IF cc = -1 THEN TRUE
    ELSE IF cc \in visited \/ cc \notin DOMAIN map THEN FALSE
    ELSE ReachesSentinel(map, map[cc].prevCC, visited \cup {cc})

\* Entries are inserted in the order their fragments are processed, which is
\* the order the fragments arrive in, and fragment i starts at FragStart(i): the
\* entry of the least start is the first inserted, that of the greatest the last.
FirstInserted(map) == CHOOSE cc \in DOMAIN map : \A c \in DOMAIN map : map[cc].start <= map[c].start

LastInserted(map) == CHOOSE cc \in DOMAIN map : \A c \in DOMAIN map : map[cc].start >= map[c].start

\* the continuity chain of a map and the last id
ContinuityChain(map, prevCC) ==
    /\ \A cc \in DOMAIN map : ReachesSentinel(map, cc, {})
    /\ \A cc \in DOMAIN map : map[cc].prevCC = -1 <=> cc = FirstInserted(map)
    /\ prevCC = IF DOMAIN map = {} THEN -1 ELSE LastInserted(map)

\* C19 (continuity chain), as stated.  In every reachable state, prevCC leads
\* from every entry of the continuity map to -1 without meeting an entry twice,
\* the entry with prevCC = -1 is the first inserted since the last manifest
\* loading, and _prevCC is the id of the last inserted entry, -1 when the map
\* has no entry.
C19_ContinuityChain == ContinuityChain(_vttCCs, _prevCC)

\* C19, amended.  The same in every state from the first onManifestLoading on:
\* the constructor leaves _prevCC (and the map) undefined.
C19_ChainAfterManifestLoading == manifest # "none" => ContinuityChain(_vttCCs, _prevCC)

\* two fragments were processed one by one, of ids 0 and then 1: the chain is
\* 1 -> 0 -> -1
C19_Witness ==
    /\ manifest # "none"
    /\ SubtitleFragLoadedLast(lastEvent)
    /\ lastEvent.data.frag.cc = 1
    /\ DOMAIN _vttCCs = {0, 1}
    /\ _vttCCs[1].prevCC = 0
    /\ _vttCCs[0].prevCC = -1
    /\ _prevCC = 1

\* the tracks of the current manifest
TextTracksInUse == {_textTracks[i] : i \in 1..Len(_textTracks)}

\* C20 (no stale cue after a reload).  A parse-success callback that fires when
\* onManifestLoading and then onManifestLoaded have run since its parse was
\* started (the map has lost the fragment's entry, the timestamp is unset and
\* the manifest is loaded) adds no cue to a track of the current manifest.
C20_NoStaleCue ==
    (/\ lastEvent.type = "parseSuccess"
     /\ lastEvent.frag.cc \notin DOMAIN _vttCCs
     /\ _initPTS = Undefined
     /\ manifest = "loaded"
     /\ lastEvent.track \in TextTracksInUse)
        => mediaTextTracks[lastEvent.track].cues = lastEvent.before
====
